---- MODULE Spec2Model ----
(***************************************************************************)
(* A model of the LM Studio chat gateway (src/app): the streaming          *)
(* responder and its three NDJSON endpoints, the preparation of the        *)
(* backend call (model resolution, generation parameters) and the cached   *)
(* inference client, the normalisation of chat messages, the HTTP answer   *)
(* of the non-streaming routes and the ModelManager.                       *)
(*                                                                         *)
(* Python's Optional values are sequences of length at most one: None is   *)
(* <<>> and a present value v is <<v>>.  A dict is a function whose domain *)
(* is its set of keys.                                                     *)
(***************************************************************************)
EXTENDS Integers, Sequences, FiniteSets, TLC

VARIABLES
    settings,       \* Settings(): default_regular_model, default_vision_model
    endpoint,       \* the route that received the request
    model_key,      \* ChatRequest.model_key (Optional[str])
    req_config,     \* ChatRequest.config (Optional[ChatConfig])
    pc,             \* where the request's coroutine / generator stands
    model,          \* stream_respond / respond: local `model`
    params,         \* the keyword arguments of client.chat.completions.create
    units,          \* the backend units (chunks) consumed so far, in arrival order
    emitted,        \* the events stream_respond has yielded so far
    sent,           \* the NDJSON lines the client has received so far
    model_name,     \* stream_respond: local `model_name`
    total_tokens,   \* stream_respond: local `total_tokens`
    finish_reason,  \* stream_respond: local `finish_reason`
    streamOpen,     \* whether the backend stream of this request is open
    cache,          \* lru_cache of get_client: <<>> or <<handle>>
    constructions,  \* how many AsyncOpenAI clients this process has constructed
    running,        \* the coroutine the event loop is running, <<>> when none
    cpc,            \* per caller: its position around get_client
    handle,         \* per caller: the client handle get_client returned
    req_messages,   \* the messages of the request body, as sent by the client
    formatted,      \* build_messages: its result, <<>> before it has run
    http_status,    \* the status of the HTTP response, 0 before there is one
    http_body,      \* the body of the HTTP response
    reply,          \* what the awaited backend call gave: an error or a response
    loaded,         \* the model host: the keys of the models it has loaded
    mm_call,        \* the latest ModelManager call and the host failures it met
    mm_outcome      \* how that call ended: raised, or returned a value

reqVars    == <<settings, endpoint, model_key, req_config, pc, model, params>>
streamVars == <<units, emitted, sent, model_name, total_tokens, finish_reason, streamOpen>>
clientVars == <<cache, constructions, running, cpc, handle>>
msgVars    == <<req_messages, formatted>>
replyVars  == <<http_status, http_body, reply>>
hostVars   == <<loaded, mm_call, mm_outcome>>
restVars   == <<msgVars, replyVars, hostVars>>
vars       == <<reqVars, streamVars, clientVars, restVars>>

(***************************************************************************)
(* Bounds of the model.                                                    *)
(***************************************************************************)
MaxUnits   == 2     \* backend units per stream
MaxVal     == 1     \* generation parameter values are 0..MaxVal
MaxCallers == 4     \* requests in flight that call get_client
MaxTurns   == 2     \* chat turns per request
MaxImages  == 2     \* image attachments per request, over all its turns

(***************************************************************************)
(* Python values.                                                          *)
(***************************************************************************)
None     == <<>>
Some(v)  == <<v>>
Opt(S)   == {None} \cup {Some(v) : v \in S}

\* Truth value of an Optional[str]: None and "" are falsy.
Truthy(o) == o # None /\ o[1] # ""

\* Python's `a or b` for an Optional[str] a and a str b.
OrElse(a, b) == IF Truthy(a) THEN a[1] ELSE b

(***************************************************************************)
(* Settings (src/app/config.py) and the request's inputs.                  *)
(***************************************************************************)
DefaultSettings ==
    [default_regular_model |-> "qwen/qwen3-4b-2507",
     default_vision_model  |-> "qwen3-vl-4b-instruct"]

\* Values DEFAULT_REGULAR_MODEL / DEFAULT_VISION_MODEL may be given in the
\* environment: any string, the empty one included.
SettingsSpace ==
    [default_regular_model : {"", "reg"}, default_vision_model : {"", "vis"}]

ModelKeys  == Opt({"", "mk"})

CfgFields  == {"temperature", "maxTokens", "topP", "presencePenalty", "frequencyPenalty"}
CfgValues  == 0..MaxVal
ChatConfig == [CfgFields -> Opt(CfgValues)]

\* The empty dict.
EmptyDict == <<>>

\* ChatConfig.model_dump(exclude_none=True): the fields that are not None.
ModelDump(c) == [f \in {g \in CfgFields : c[g] # None} |-> c[f][1]]

\* routes: config = req.config.model_dump(exclude_none=True) if req.config else None
\* (a pydantic model is always truthy).
RouteConfig(rc) == IF rc = None THEN None ELSE Some(ModelDump(rc[1]))

\* cfg = config or {}  (None and the empty dict are falsy).
CfgOrEmpty(config) == IF config = None \/ DOMAIN config[1] = {} THEN EmptyDict ELSE config[1]

\* Mutant of MapField: tests the value instead of the key, so a field set to
\* zero is dropped.
MapField_Truthy(cfg, f, key) ==
    IF f \in DOMAIN cfg /\ cfg[f] # 0 THEN key :> cfg[f] ELSE EmptyDict

\* if "<field>" in cfg: params["<key>"] = cfg["<field>"]
MapField(cfg, f, key) == IF f \in DOMAIN cfg THEN key :> cfg[f] ELSE EmptyDict

\* The five fields of the client configuration mapped to OpenAI parameters.
MapConfig(cfg) ==
    MapField(cfg, "temperature", "temperature")
    @@ MapField(cfg, "maxTokens", "max_tokens")
    @@ MapField(cfg, "topP", "top_p")
    @@ MapField(cfg, "presencePenalty", "presence_penalty")
    @@ MapField(cfg, "frequencyPenalty", "frequency_penalty")

\* model = model_key or settings.default_regular_model
ResolveModel(mk, s) == OrElse(mk, s.default_regular_model)

\* respond_regular / stream_respond_regular: model_key = settings.default_regular_model
RegularModelKey(s) == Some(s.default_regular_model)

\* respond_vision / stream_respond_vision: model_key = settings.default_vision_model
VisionModelKey(s) == Some(s.default_vision_model)

\* The model_key each route hands to respond / stream_respond.
RouteModelKey(ep, mk, s) ==
    CASE ep \in {"chat", "chat_stream"}       -> mk
      [] ep \in {"regular", "regular_stream"} -> RegularModelKey(s)
      [] ep \in {"vision", "vision_stream"}   -> VisionModelKey(s)

\* respond: params = {"model": model, ...} and the mapped configuration.
RespondParams(m, config) ==
    [model |-> m] @@ MapConfig(CfgOrEmpty(config))

\* stream_respond: params = {"model": model, ..., "stream": True} and the
\* mapped configuration.
StreamParams(m, config) ==
    [model |-> m, stream |-> TRUE] @@ MapConfig(CfgOrEmpty(config))

(***************************************************************************)
(* Backend units (chat completion chunks) and stream events.               *)
(***************************************************************************)
Models      == {"a", "b"}
Texts       == {"", "x", "y"}
StopReasons == {"stop", "length"}

\* A choice of a chunk always carries a delta object; its content may be None.
Delta  == [content : Opt(Texts)]
Choice == [delta : {Some(d) : d \in Delta}, finish_reason : Opt(StopReasons)]
Unit   == [model : Opt(Models), choices : {<<>>} \cup {<<c>> : c \in Choice}]

Fragment(text) == [type |-> "fragment", content |-> text]

DoneEvent(m, n, r) ==
    [type |-> "done", model |-> m, predicted_tokens |-> n, stop_reason |-> r]

\* json.dumps(item) + "\n": a line is represented by the object it encodes.
JsonLine(item) == item

\* Mutant of HasContent: tests the content against None only, so an empty
\* string counts as text.
HasContent_NotNone(choice) == choice.delta # None /\ choice.delta[1].content # None

\* if choice.delta and choice.delta.content
HasContent(choice) == choice.delta # None /\ Truthy(choice.delta[1].content)

\* if model_name is None and chunk.model: model_name = chunk.model
\* (reached only under `if chunk.choices:`)
CaptureModel(name, chunk) ==
    IF chunk.choices # <<>> /\ name = None /\ Truthy(chunk.model)
    THEN chunk.model ELSE name

\* if choice.finish_reason: finish_reason = choice.finish_reason
CaptureFinish(reason, choice) ==
    IF Truthy(choice.finish_reason) THEN choice.finish_reason ELSE reason

\* Mutant of FinalMessage: reports the count as it is, also when it is zero.
FinalMessage_ZeroCount(name, m, n, r) ==
    DoneEvent(IF Truthy(name) THEN name[1] ELSE m, Some(n), r)

\* The final message of stream_respond.
FinalMessage(name, m, n, r) ==
    DoneEvent(IF Truthy(name) THEN name[1] ELSE m,
              IF n > 0 THEN Some(n) ELSE None,
              r)

Last(s) == s[Len(s)]

(***************************************************************************)
(* The request before any handler has run, and the parts of the state a    *)
(* specification leaves idle.                                              *)
(***************************************************************************)
IdleStream ==
    /\ units = <<>> /\ emitted = <<>> /\ sent = <<>>
    /\ model_name = None /\ total_tokens = 0 /\ finish_reason = None
    /\ streamOpen = FALSE

IdleClient ==
    /\ cache = None /\ constructions = 0 /\ running = None
    /\ cpc = [c \in 1..MaxCallers |-> "idle"]
    /\ handle = [c \in 1..MaxCallers |-> None]

Received ==
    /\ pc = "received" /\ endpoint = "" /\ model = "" /\ params = EmptyDict

IdleMessages == req_messages = <<>> /\ formatted = None

IdleReply == http_status = 0 /\ http_body = None /\ reply = None

IdleHost == loaded = {} /\ mm_call = None /\ mm_outcome = None

(***************************************************************************)
(* stream_respond, reached from /chat/stream directly and from             *)
(* /chat/regular/stream and /chat/vision/stream through its wrappers.      *)
(* The generator starts when the StreamingResponse first iterates it: it   *)
(* prepares the call and awaits client.chat.completions.create, which      *)
(* either returns the stream or raises.                                    *)
(***************************************************************************)
StreamRespond(ep, ok) ==
    /\ pc = "received"
    /\ endpoint' = ep
    /\ model' = ResolveModel(RouteModelKey(ep, model_key, settings), settings)
    /\ params' = StreamParams(model', RouteConfig(req_config))
    /\ pc' = IF ok THEN "next" ELSE "failed"
    /\ streamOpen' = ok
    /\ UNCHANGED <<settings, model_key, req_config>>
    /\ UNCHANGED <<units, emitted, sent, model_name, total_tokens, finish_reason>>
    /\ UNCHANGED clientVars
    /\ UNCHANGED restVars

\* POST /chat/stream
ChatStream == \E ok \in BOOLEAN : StreamRespond("chat_stream", ok)

\* POST /chat/regular/stream
ChatRegularStream == \E ok \in BOOLEAN : StreamRespond("regular_stream", ok)

\* POST /chat/vision/stream
ChatVisionStream == \E ok \in BOOLEAN : StreamRespond("vision_stream", ok)

\* async for chunk in stream: one unit arrives and is processed up to the
\* yield of its Fragment, or to the end of the loop body when it has no text.
ProcessChunk(chunk) ==
    /\ pc = "next"
    /\ Len(units) < MaxUnits
    /\ units' = Append(units, chunk)
    /\ model_name' = CaptureModel(model_name, chunk)
    /\ IF chunk.choices # <<>> /\ HasContent(chunk.choices[1])
       THEN /\ emitted' = Append(emitted, Fragment(chunk.choices[1].delta[1].content[1]))
            /\ pc' = "yield"
            /\ UNCHANGED finish_reason
       ELSE /\ finish_reason' = IF chunk.choices # <<>>
                                THEN CaptureFinish(finish_reason, chunk.choices[1])
                                ELSE finish_reason
            /\ UNCHANGED <<emitted, pc>>
    /\ UNCHANGED <<sent, total_tokens, streamOpen>>
    /\ UNCHANGED <<settings, endpoint, model_key, req_config, model, params>>
    /\ UNCHANGED clientVars
    /\ UNCHANGED restVars

RecvUnit == \E chunk \in Unit : ProcessChunk(chunk)

\* The Fragment reaches the client (event_gen yields its line and the
\* response sends it); the generator resumes after the yield:
\* total_tokens += 1, then the chunk's finish reason.
DeliverFragment ==
    /\ pc = "yield"
    /\ sent' = Append(sent, JsonLine(Last(emitted)))
    /\ total_tokens' = total_tokens + 1
    /\ finish_reason' = CaptureFinish(finish_reason, Last(units).choices[1])
    /\ pc' = "next"
    /\ UNCHANGED <<units, emitted, model_name, streamOpen>>
    /\ UNCHANGED <<settings, endpoint, model_key, req_config, model, params>>
    /\ UNCHANGED clientVars
    /\ UNCHANGED restVars

\* Mutant of StreamEnd: the final message is yielded only when some
\* fragment was counted.
StreamEnd_SkipsDoneWhenEmpty ==
    /\ pc = "next"
    /\ IF total_tokens > 0
       THEN /\ emitted' = Append(emitted, FinalMessage(model_name, model, total_tokens, finish_reason))
            /\ pc' = "yield_done"
       ELSE /\ pc' = "done"
            /\ UNCHANGED emitted
    /\ streamOpen' = FALSE
    /\ UNCHANGED <<units, sent, model_name, total_tokens, finish_reason>>
    /\ UNCHANGED <<settings, endpoint, model_key, req_config, model, params>>
    /\ UNCHANGED clientVars
    /\ UNCHANGED restVars

\* The backend signals completion: the loop ends and the final message is
\* yielded.
StreamEnd ==
    /\ pc = "next"
    /\ emitted' = Append(emitted, FinalMessage(model_name, model, total_tokens, finish_reason))
    /\ pc' = "yield_done"
    /\ streamOpen' = FALSE
    /\ UNCHANGED <<units, sent, model_name, total_tokens, finish_reason>>
    /\ UNCHANGED <<settings, endpoint, model_key, req_config, model, params>>
    /\ UNCHANGED clientVars
    /\ UNCHANGED restVars

\* The final line reaches the client; the generators return.
DeliverDone ==
    /\ pc = "yield_done"
    /\ sent' = Append(sent, JsonLine(Last(emitted)))
    /\ pc' = "done"
    /\ UNCHANGED <<units, emitted, model_name, total_tokens, finish_reason, streamOpen>>
    /\ UNCHANGED <<settings, endpoint, model_key, req_config, model, params>>
    /\ UNCHANGED clientVars
    /\ UNCHANGED restVars

\* Mutant of StreamFail: the failure is caught and reported to the client
\* as a frame of its own.
StreamFail_EmitsErrorFrame ==
    /\ pc = "next"
    /\ pc' = "failed"
    /\ streamOpen' = FALSE
    /\ emitted' = Append(emitted, [type |-> "error"])
    /\ sent' = Append(sent, JsonLine([type |-> "error"]))
    /\ UNCHANGED <<units, model_name, total_tokens, finish_reason>>
    /\ UNCHANGED <<settings, endpoint, model_key, req_config, model, params>>
    /\ UNCHANGED clientVars
    /\ UNCHANGED restVars

\* The backend fails while the next unit is awaited: the exception leaves
\* stream_respond, its wrapper and event_gen, none of which handles it.  The
\* failed stream is closed by the transport that raised.
StreamFail ==
    /\ pc = "next"
    /\ pc' = "failed"
    /\ streamOpen' = FALSE
    /\ UNCHANGED <<units, emitted, sent, model_name, total_tokens, finish_reason>>
    /\ UNCHANGED <<settings, endpoint, model_key, req_config, model, params>>
    /\ UNCHANGED clientVars
    /\ UNCHANGED restVars

\* The client disconnects while the next unit is awaited: the cancellation
\* is raised inside the iteration of the backend stream, which closes as the
\* exception unwinds through it, and leaves the generators, which have no
\* handler for it.
CancelAtAwait ==
    /\ pc = "next"
    /\ pc' = "cancelled"
    /\ streamOpen' = FALSE
    /\ UNCHANGED <<units, emitted, sent, model_name, total_tokens, finish_reason>>
    /\ UNCHANGED <<settings, endpoint, model_key, req_config, model, params>>
    /\ UNCHANGED clientVars
    /\ UNCHANGED restVars

\* The client disconnects while an event is being sent: the generators are
\* left suspended at their yield and no statement of theirs runs (there is
\* no try/finally, no aclose and no context manager around the stream).
CancelAtYield ==
    /\ pc \in {"yield", "yield_done"}
    /\ pc' = "cancelled"
    /\ UNCHANGED <<units, emitted, sent, model_name, total_tokens, finish_reason, streamOpen>>
    /\ UNCHANGED <<settings, endpoint, model_key, req_config, model, params>>
    /\ UNCHANGED clientVars
    /\ UNCHANGED restVars

\* The runtime finalises the abandoned generators and the stream they hold,
\* if and when it collects them.
Finalize ==
    /\ pc = "cancelled"
    /\ streamOpen
    /\ streamOpen' = FALSE
    /\ UNCHANGED <<units, emitted, sent, model_name, total_tokens, finish_reason>>
    /\ UNCHANGED reqVars
    /\ UNCHANGED clientVars
    /\ UNCHANGED restVars

(***************************************************************************)
(* respond, reached from /chat directly and from /chat/regular and         *)
(* /chat/vision through respond_regular and respond_vision: the call is    *)
(* prepared and client.chat.completions.create is awaited.                 *)
(***************************************************************************)
Respond(ep) ==
    /\ pc = "received"
    /\ endpoint' = ep
    /\ model' = ResolveModel(RouteModelKey(ep, model_key, settings), settings)
    /\ params' = RespondParams(model', RouteConfig(req_config))
    /\ pc' = "awaiting"
    /\ UNCHANGED <<settings, model_key, req_config>>
    /\ UNCHANGED streamVars
    /\ UNCHANGED clientVars
    /\ UNCHANGED restVars

\* POST /chat
Chat == Respond("chat")

\* POST /chat/regular
ChatRegular == Respond("regular")

\* POST /chat/vision
ChatVision == Respond("vision")

(***************************************************************************)
(* get_client under functools.lru_cache.  Every caller is a coroutine of   *)
(* the one event loop (all chat routes are `async def`), and a coroutine   *)
(* keeps the loop from the moment it runs until its next await; respond    *)
(* and stream_respond call get_client before their first await.            *)
(***************************************************************************)
Callers == 1..MaxCallers

\* A request's coroutine starts to run respond / stream_respond.
Enter(c) ==
    /\ running = None
    /\ cpc[c] = "idle"
    /\ running' = Some(c)
    /\ cpc' = [cpc EXCEPT ![c] = "enter"]
    /\ UNCHANGED <<cache, constructions, handle>>
    /\ UNCHANGED <<reqVars, streamVars>>
    /\ UNCHANGED restVars

\* Mutant of Lookup: the cache is never consulted.
Lookup_NoCache(c) ==
    /\ running = Some(c)
    /\ cpc[c] = "enter"
    /\ cpc' = [cpc EXCEPT ![c] = "miss"]
    /\ UNCHANGED <<cache, constructions, running, handle>>
    /\ UNCHANGED <<reqVars, streamVars>>
    /\ UNCHANGED restVars

\* client = get_client(): the lru_cache wrapper looks its cache up.
Lookup(c) ==
    /\ running = Some(c)
    /\ cpc[c] = "enter"
    /\ IF cache # None
       THEN /\ handle' = [handle EXCEPT ![c] = cache]
            /\ cpc' = [cpc EXCEPT ![c] = "got"]
       ELSE /\ cpc' = [cpc EXCEPT ![c] = "miss"]
            /\ UNCHANGED handle
    /\ UNCHANGED <<cache, constructions, running>>
    /\ UNCHANGED <<reqVars, streamVars>>
    /\ UNCHANGED restVars

\* On a miss the body of get_client runs: a new AsyncOpenAI is constructed.
Construct(c) ==
    /\ running = Some(c)
    /\ cpc[c] = "miss"
    /\ constructions' = constructions + 1
    /\ handle' = [handle EXCEPT ![c] = Some(constructions + 1)]
    /\ cpc' = [cpc EXCEPT ![c] = "built"]
    /\ UNCHANGED <<cache, running>>
    /\ UNCHANGED <<reqVars, streamVars>>
    /\ UNCHANGED restVars

\* The wrapper stores the result and returns it.
Store(c) ==
    /\ running = Some(c)
    /\ cpc[c] = "built"
    /\ cache' = IF cache = None THEN handle[c] ELSE cache
    /\ cpc' = [cpc EXCEPT ![c] = "got"]
    /\ UNCHANGED <<constructions, running, handle>>
    /\ UNCHANGED <<reqVars, streamVars>>
    /\ UNCHANGED restVars

\* await client.chat.completions.create(**params): the coroutine gives the
\* loop up.
Await(c) ==
    /\ running = Some(c)
    /\ cpc[c] = "got"
    /\ running' = None
    /\ cpc' = [cpc EXCEPT ![c] = "awaiting"]
    /\ UNCHANGED <<cache, constructions, handle>>
    /\ UNCHANGED <<reqVars, streamVars>>
    /\ UNCHANGED restVars

\* The backend answers and the request completes.
Complete(c) ==
    /\ running = None
    /\ cpc[c] = "awaiting"
    /\ cpc' = [cpc EXCEPT ![c] = "done"]
    /\ UNCHANGED <<cache, constructions, running, handle>>
    /\ UNCHANGED <<reqVars, streamVars>>
    /\ UNCHANGED restVars

(***************************************************************************)
(* Spec: one streaming request, from its arrival to the end of its stream. *)
(***************************************************************************)
Init ==
    /\ settings = DefaultSettings
    /\ model_key \in Opt({"mk"})
    /\ req_config = None
    /\ Received
    /\ IdleStream
    /\ IdleClient
    /\ IdleMessages
    /\ IdleReply
    /\ IdleHost

Next ==
    \/ ChatStream
    \/ ChatRegularStream
    \/ ChatVisionStream
    \/ RecvUnit
    \/ DeliverFragment
    \/ StreamEnd
    \/ DeliverDone
    \/ StreamFail
    \/ CancelAtAwait
    \/ CancelAtYield
    \/ Finalize

Spec == Init /\ [][Next]_vars

(***************************************************************************)
(* What the claims speak of.                                               *)
(***************************************************************************)
\* The text a backend unit carries: the content of its first choice's
\* delta, "" when it has none.
UnitText(u) ==
    IF u.choices # <<>> /\ u.choices[1].delta # None
       /\ u.choices[1].delta[1].content # None
    THEN u.choices[1].delta[1].content[1]
    ELSE ""

IsTextUnit(u) == UnitText(u) # ""
IsFragment(e) == e.type = "fragment"
IsDone(e)     == e.type = "done"

\* The non-empty texts of a sequence of units, in order.
NonEmptyTexts(us) ==
    LET sel == SelectSeq(us, IsTextUnit)
    IN  [i \in 1..Len(sel) |-> UnitText(sel[i])]

Fragments(evs) == SelectSeq(evs, IsFragment)

\* The contents of the Fragment events of a sequence of events, in order.
Contents(evs) ==
    LET sel == Fragments(evs)
    IN  [i \in 1..Len(sel) |-> sel[i].content]

\* Zero or more Fragment events, then at most one Done, which is last.
FragmentsThenDone(evs) ==
    \A i \in 1..Len(evs) :
        /\ IsFragment(evs[i]) \/ IsDone(evs[i])
        /\ IsDone(evs[i]) => i = Len(evs)

EndsWithDone(evs) == Len(evs) >= 1 /\ IsDone(Last(evs))

StreamEndpoints == {"chat_stream", "regular_stream", "vision_stream"}

\* C1: a stream that ends normally is zero or more Fragment events followed
\* by exactly one Done event, which is last, on each streaming endpoint: in
\* what stream_respond yields and in what the client receives; no event
\* ever follows a Done.
C1_FragmentsThenExactlyOneDone ==
    /\ FragmentsThenDone(emitted)
    /\ FragmentsThenDone(sent)
    /\ pc \in {"yield_done", "done"} => EndsWithDone(emitted)
    /\ pc = "done" => EndsWithDone(sent) /\ sent = emitted

C1_Witness ==
    /\ pc = "done"
    /\ endpoint = "regular_stream"
    /\ Len(sent) = 2
    /\ \E i \in 1..Len(units) : ~IsTextUnit(units[i])

\* C2: when the backend fails after N Fragment events (N >= 0, the initial
\* call included), the client has received exactly those N Fragment events,
\* no Done and no error frame.
C2_FailureTruncatesWithoutDone ==
    pc = "failed" =>
        /\ sent = emitted
        /\ \A i \in 1..Len(sent) : IsFragment(sent[i])
        /\ Contents(sent) = NonEmptyTexts(units)

C2_Witness ==
    /\ pc = "failed"
    /\ endpoint = "vision_stream"
    /\ Len(sent) = 1

\* C3: one Fragment per backend unit with non-empty text and none for a
\* unit without; the Fragment contents, in order, are the non-empty texts of
\* the units in arrival order; and a unit is consumed only when every
\* Fragment emitted so far has been handed over (no buffering).
C3_OneFragmentPerTextUnitInOrder ==
    /\ Contents(emitted) = NonEmptyTexts(units)
    /\ pc = "next" => sent = emitted
    /\ pc = "yield" => /\ IsTextUnit(Last(units))
                       /\ emitted = Append(sent, Fragment(UnitText(Last(units))))

C3_Witness ==
    /\ pc = "next"
    /\ Len(units) = 2
    /\ Contents(emitted) = <<"y", "x">>

\* C4 as stated: the Done event carries the number of Fragment events, or
\* None when there was none, and at every point of the stream the running
\* count equals the number of Fragment events emitted so far.
C4_CountEqualsEmittedAtEveryPoint ==
    /\ EndsWithDone(emitted) =>
           Last(emitted).predicted_tokens =
               IF Len(Fragments(emitted)) >= 1
               THEN Some(Len(Fragments(emitted))) ELSE None
    /\ total_tokens = Len(Fragments(emitted))

\* C4 as amended: the Done event carries the number of Fragment events, or
\* None when there was none, and at every point of the stream the running
\* count equals the number of Fragment events handed over to the client: it
\* is one behind the number emitted while a Fragment is being handed over.
C4_CountEqualsDeliveredFragments ==
    /\ EndsWithDone(emitted) =>
           Last(emitted).predicted_tokens =
               IF Len(Fragments(emitted)) >= 1
               THEN Some(Len(Fragments(emitted))) ELSE None
    /\ total_tokens = Len(Fragments(sent))
    /\ pc = "yield" => total_tokens = Len(Fragments(emitted)) - 1
    /\ pc \in {"next", "yield_done", "done"} => total_tokens = Len(Fragments(emitted))

C4_Witness ==
    /\ pc = "done"
    /\ Last(sent).predicted_tokens = Some(2)

\* Whether a unit reports a model name.
ReportsModel(u) == u.model # None /\ u.model[1] # ""

\* Whether a unit reports a stop reason.
ReportsStop(u) ==
    u.choices # <<>> /\ u.choices[1].finish_reason # None
    /\ u.choices[1].finish_reason[1] # ""

FirstIndex(us, P(_)) == CHOOSE i \in 1..Len(us) : P(us[i]) /\ \A j \in 1..(i-1) : ~P(us[j])
LastIndex(us, P(_))  == CHOOSE i \in 1..Len(us) : P(us[i]) /\ \A j \in (i+1)..Len(us) : ~P(us[j])

\* C5: the Done event's model is the model name of the first unit that
\* reports one, whatever else the unit carries, and the requested model
\* only when no unit reported one; its stop_reason is that of the last unit
\* that reported one, None when none did.
C5_DoneCarriesFirstModelAndLastStop ==
    EndsWithDone(emitted) =>
        /\ Last(emitted).model =
               IF \E i \in 1..Len(units) : ReportsModel(units[i])
               THEN units[FirstIndex(units, ReportsModel)].model[1]
               ELSE model
        /\ Last(emitted).stop_reason =
               IF \E i \in 1..Len(units) : ReportsStop(units[i])
               THEN units[LastIndex(units, ReportsStop)].choices[1].finish_reason
               ELSE None

\* C6: once the stream of a request is cancelled, its backend stream is not
\* open, and from then on no unit is consumed and no event is emitted.
C6_CancelReleasesBackendStream ==
    /\ pc = "cancelled" => ~streamOpen
    /\ pc = "cancelled" => ~ENABLED RecvUnit /\ ~ENABLED StreamEnd /\ ~ENABLED DeliverFragment

(***************************************************************************)
(* SpecCall: one request on any of the six chat endpoints, for every       *)
(* configured pair of defaults, model_key and configuration, up to the     *)
(* call of the backend.                                                    *)
(***************************************************************************)
InitCall ==
    /\ settings \in SettingsSpace
    /\ model_key \in ModelKeys
    /\ req_config \in Opt(ChatConfig)
    /\ Received
    /\ IdleStream
    /\ IdleClient
    /\ IdleMessages
    /\ IdleReply
    /\ IdleHost

NextCall ==
    \/ Chat
    \/ ChatRegular
    \/ ChatVision
    \/ ChatStream
    \/ ChatRegularStream
    \/ ChatVisionStream

SpecCall == InitCall /\ [][NextCall]_vars

(***************************************************************************)
(* SpecClient: the requests in flight in one process and their use of      *)
(* get_client.                                                             *)
(***************************************************************************)
InitClient ==
    /\ settings = DefaultSettings
    /\ model_key = None
    /\ req_config = None
    /\ Received
    /\ IdleStream
    /\ IdleClient
    /\ IdleMessages
    /\ IdleReply
    /\ IdleHost

NextClient ==
    \E c \in Callers :
        \/ Enter(c)
        \/ Lookup(c)
        \/ Construct(c)
        \/ Store(c)
        \/ Await(c)
        \/ Complete(c)

SpecClient == InitClient /\ [][NextClient]_vars

\* C7: the inference client is constructed at most once per process and
\* every caller of get_client receives the same handle, however many
\* requests are in flight.
C7_ClientConstructedOnceAndShared ==
    /\ constructions <= 1
    /\ \A c, d \in Callers :
           handle[c] # None /\ handle[d] # None => handle[c] = handle[d]

C7_Witness ==
    \E c, d \in Callers :
        /\ c # d
        /\ cpc[c] = "awaiting" /\ handle[c] # None
        /\ cpc[d] = "got" /\ handle[d] # None

\* The request has reached the backend call.
CallMade == pc \in {"awaiting", "next", "failed"}

\* C8: on the regular path the model passed to the backend is the
\* configured regular default and on the vision path the configured vision
\* default, whatever the client sends and whatever the configured value is.
C8_RoleDefaultAlwaysPassed ==
    CallMade =>
        /\ endpoint \in {"regular", "regular_stream"} =>
               params["model"] = settings.default_regular_model
        /\ endpoint \in {"vision", "vision_stream"} =>
               params["model"] = settings.default_vision_model

\* C9: on the explicit path the model passed to the backend is the client's
\* model_key whenever one is present, for any string, and the configured
\* regular default when it is absent.
C9_ExplicitKeyPassedWhenPresent ==
    CallMade /\ endpoint \in {"chat", "chat_stream"} =>
        params["model"] = IF model_key # None
                          THEN model_key[1]
                          ELSE settings.default_regular_model

\* The backend key of each field of the client configuration.
BackendKey(f) ==
    CASE f = "temperature"      -> "temperature"
      [] f = "maxTokens"        -> "max_tokens"
      [] f = "topP"             -> "top_p"
      [] f = "presencePenalty"  -> "presence_penalty"
      [] f = "frequencyPenalty" -> "frequency_penalty"

\* The fields of the request's configuration that are present.
PresentFields == IF req_config = None THEN {} ELSE {f \in CfgFields : req_config[1][f] # None}

\* The keys of the backend call that are generation parameters.
GenerationKeys == DOMAIN params \ {"model", "messages", "stream"}

\* C10: the generation parameters of the backend call are exactly the
\* backend keys of the present fields, each with the client's value, zero
\* included; an absent configuration yields none.
C10_ExactlyPresentFieldsForwarded ==
    CallMade =>
        /\ GenerationKeys = {BackendKey(f) : f \in PresentFields}
        /\ \A f \in PresentFields : params[BackendKey(f)] = req_config[1][f][1]
        /\ ("stream" \in DOMAIN params) <=> (endpoint \in StreamEndpoints)

C10_Witness ==
    /\ CallMade
    /\ endpoint = "vision"
    /\ req_config # None
    /\ PresentFields = {"temperature", "maxTokens"}
    /\ params["temperature"] = 0
    /\ params["max_tokens"] = 1

(***************************************************************************)
(* Chat messages: the request body (schemas.py), what the routes hand to   *)
(* the services (model_dump) and build_messages.                           *)
(***************************************************************************)
Roles    == {"user", "assistant"}
TurnTexts == {"", "hi"}
B64Data  == {"", "QQ=="}

\* mime_type on the wire: omitted (<<>>), null (<<None>>) or a string.
Omitted   == <<>>
WireMimes == {Omitted, Some(None), Some(Some("image/png"))}

\* An attachment without data is dropped whatever its mime type: one such
\* attachment stands for all of them.
WireImage ==
    {w \in [data_base64 : B64Data, mime_type : WireMimes] :
        w.data_base64 = "" => w.mime_type = Omitted}

\* The sequences of exactly k elements of S.
SeqsOfLen(S, k) == [1..k -> S]

\* The turns a client may send that carry exactly k attachments.
WireTurns(k) == [role : Roles, content : TurnTexts, images : SeqsOfLen(WireImage, k)]

\* The requests of n turns that carry at most `budget` attachments in all.
RECURSIVE WireMessages(_, _)
WireMessages(n, budget) ==
    IF n = 0 THEN {<<>>}
    ELSE UNION {{Append(m, t) : m \in WireMessages(n - 1, budget - k), t \in WireTurns(k)} :
                    k \in 0..budget}

\* ChatImage: mime_type: str | None = "image/jpeg".  The default stands in
\* for an omitted field only; an explicit null is a valid value and is kept.
ChatImage(w) ==
    [data_base64 |-> w.data_base64,
     mime_type   |-> IF w.mime_type = Omitted THEN Some("image/jpeg") ELSE w.mime_type[1]]

\* ChatMessage validated from the request body.
ChatMessage(w) ==
    [role |-> w.role, content |-> w.content,
     images |-> [i \in 1..Len(w.images) |-> ChatImage(w.images[i])]]

\* routes: messages = [m.model_dump() for m in req.messages].  The dict of a
\* message has every field of the model as a key, mime_type included.
DumpMessages(body) == [i \in 1..Len(body) |-> ChatMessage(body[i])]

\* str() of a value inside an f-string: None is printed as "None".
Format(o) == IF o = None THEN "None" ELSE o[1]

\* f"data:{mime_type};base64,{b64}": the URL is kept as its four segments.
DataUrl(mime_type, b64) == <<"data:", Format(mime_type), ";base64,", b64>>

TextPart(text) == [type |-> "text", text |-> text]
ImagePart(url) == [type |-> "image_url", image_url |-> [url |-> url]]

\* A Python value with its type: a str or a list.
Str(v)  == [kind |-> "str", value |-> v]
List(v) == [kind |-> "list", value |-> v]

\* Mutant of HasData: every attachment yields a part.
HasData_Always(b64) == TRUE

\* if b64:
HasData(b64) == b64 # ""

\* for img in images: b64 = img.get("data_base64");
\* mime_type = img.get("mime_type", "image/jpeg") -- the key is always in the
\* dumped dict, so the default of get is never used; if b64: append the part.
RECURSIVE ImageParts(_)
ImageParts(images) ==
    IF images = <<>> THEN <<>>
    ELSE LET img == Head(images)
         IN  (IF HasData(img.data_base64)
              THEN <<ImagePart(DataUrl(img.mime_type, img.data_base64))>>
              ELSE <<>>)
             \o ImageParts(Tail(images))

\* The body of the loop of build_messages for one message.
FormatMessage(msg) ==
    IF msg.images = <<>>
    THEN [role |-> msg.role, content |-> Str(msg.content)]
    ELSE [role |-> msg.role,
          content |-> List((IF msg.content # "" THEN <<TextPart(msg.content)>> ELSE <<>>)
                           \o ImageParts(msg.images))]

\* build_messages
RECURSIVE build_messages(_)
build_messages(messages) ==
    IF messages = <<>> THEN <<>>
    ELSE <<FormatMessage(Head(messages))>> \o build_messages(Tail(messages))

\* A chat route dumps the validated messages and respond / stream_respond
\* normalises them for the backend call.
NormalizeMessages ==
    /\ pc = "received"
    /\ formatted = None
    /\ formatted' = Some(build_messages(DumpMessages(req_messages)))
    /\ pc' = "built"
    /\ UNCHANGED req_messages
    /\ UNCHANGED <<settings, endpoint, model_key, req_config, model, params>>
    /\ UNCHANGED <<streamVars, clientVars, replyVars, hostVars>>

(***************************************************************************)
(* SpecMsg: build_messages applied to every request body within the        *)
(* bounds.                                                                 *)
(***************************************************************************)
InitMsg ==
    /\ settings = DefaultSettings
    /\ model_key = None
    /\ req_config = None
    /\ Received
    /\ IdleStream
    /\ IdleClient
    /\ \E n \in 0..MaxTurns : req_messages \in WireMessages(n, MaxImages)
    /\ formatted = None
    /\ IdleReply
    /\ IdleHost

NextMsg == NormalizeMessages

SpecMsg == InitMsg /\ [][NextMsg]_vars

\* The attachments of a turn that carry data, in order.
IsDataImage(w) == w.data_base64 # ""
DataImages(turn) == SelectSeq(turn.images, IsDataImage)

\* C11: build_messages returns one message per turn, in order, with the
\* turn's role; a turn without images gives the plain text form; a turn with
\* images gives the multi-part form: the text part first if and only if the
\* text is non-empty, then one image part per attachment with non-empty
\* data, in attachment order, and none for an attachment with empty data.
C11_OneMessagePerTurnInOrder ==
    formatted # None =>
        LET out == formatted[1] IN
        /\ Len(out) = Len(req_messages)
        /\ \A i \in 1..Len(req_messages) :
            LET turn  == req_messages[i]
                imgs  == DataImages(turn)
                shift == IF turn.content # "" THEN 1 ELSE 0
            IN  /\ out[i].role = turn.role
                /\ IF turn.images = <<>>
                   THEN out[i].content = Str(turn.content)
                   ELSE /\ out[i].content.kind = "list"
                        /\ Len(out[i].content.value) = shift + Len(imgs)
                        /\ shift = 1 => out[i].content.value[1] = TextPart(turn.content)
                        /\ \A k \in 1..Len(imgs) :
                            LET part == out[i].content.value[shift + k]
                            IN  /\ part.type = "image_url"
                                /\ part.image_url.url[4] = imgs[k].data_base64
                                /\ imgs[k].mime_type = Some(Some("image/png")) =>
                                       part.image_url.url[2] = "image/png"

C11_Witness ==
    /\ formatted # None
    /\ Len(req_messages) = 2
    /\ req_messages[1].role # req_messages[2].role
    /\ req_messages[1].images = <<>>
    /\ req_messages[2].content = "hi"
    /\ Len(req_messages[2].images) = 2
    /\ Len(DataImages(req_messages[2])) = 1
    /\ Len(formatted[1][2].content.value) = 2

\* The mime type a data URL is claimed to carry: the client's when it gave
\* one, image/jpeg when it omitted the field or sent null.
ClaimedMime(w) ==
    IF w.mime_type = Omitted \/ w.mime_type = Some(None)
    THEN "image/jpeg" ELSE w.mime_type[1][1]

\* C12: the URL of the image part of every attachment with non-empty data
\* is data:<mime>;base64,<data>, <mime> being the attachment's mime type
\* when the client gave one and image/jpeg when it is omitted or null.
C12_MimeDefaultsToJpegWhenAbsent ==
    formatted # None =>
        \A i \in 1..Len(req_messages) :
            LET turn  == req_messages[i]
                imgs  == DataImages(turn)
                shift == IF turn.content # "" THEN 1 ELSE 0
            IN  \A k \in 1..Len(imgs) :
                    formatted[1][i].content.value[shift + k].image_url.url =
                        <<"data:", ClaimedMime(imgs[k]), ";base64,", imgs[k].data_base64>>

(***************************************************************************)
(* The answer of the non-streaming routes: respond after its await and the *)
(* handler around it (routes/chat.py).                                     *)
(***************************************************************************)
ReplyTexts == {"", "ok"}

\* A chat completion as the backend may return it: possibly without
\* choices, without text in its first choice, without usage.
Completion ==
    [model   : Models,
     choices : {<<>>} \cup {<<c>> : c \in [message : [content : Opt(ReplyTexts)],
                                          finish_reason : Opt(StopReasons)]},
     usage   : Opt([completion_tokens : 0..MaxVal])]

BackendError      == [kind |-> "error"]
BackendReturn(r)  == [kind |-> "response", value |-> r]

\* respond: the dict built from the response (services.py 136-141).
RespondData(r) ==
    [model            |-> r.model,
     content          |-> r.choices[1].message.content,
     stop_reason      |-> r.choices[1].finish_reason,
     predicted_tokens |-> IF r.usage # None THEN Some(r.usage[1].completion_tokens) ELSE None]

\* ChatResponse: content: str is required and may not be None.
ChatResponseValid(data) == data.content # None

\* HTTPException(status_code=503, ...) raised by the handler's except clause.
ServiceUnavailable == 503
\* An exception no handler catches is answered by the framework.
InternalServerError == 500
Ok == 200

\* The handler: `data = await respond(...)` inside try/except Exception ->
\* 503; `return ChatResponse(**data)` after it, outside the try.
Answer(r) ==
    IF r.kind = "error" \/ r.value.choices = <<>>
    THEN <<ServiceUnavailable, None>>
    ELSE IF ~ChatResponseValid(RespondData(r.value))
         THEN <<InternalServerError, None>>
         ELSE <<Ok, Some(RespondData(r.value))>>

BackendAnswers(r) ==
    /\ pc = "awaiting"
    /\ reply' = r
    /\ http_status' = Answer(r)[1]
    /\ http_body' = Answer(r)[2]
    /\ pc' = "answered"
    /\ UNCHANGED <<settings, endpoint, model_key, req_config, model, params>>
    /\ UNCHANGED <<streamVars, clientVars, msgVars, hostVars>>

\* await client.chat.completions.create(**params) raises: transport failure
\* or timeout.
BackendRaises == BackendAnswers(BackendError)

\* await client.chat.completions.create(**params) returns a completion.
BackendReturns == \E r \in Completion : BackendAnswers(BackendReturn(r))

(***************************************************************************)
(* SpecReply: one request on /chat, /chat/regular or /chat/vision, from    *)
(* its arrival to its HTTP answer.                                         *)
(***************************************************************************)
InitReply ==
    /\ settings = DefaultSettings
    /\ model_key \in ModelKeys
    /\ req_config = None
    /\ Received
    /\ IdleStream
    /\ IdleClient
    /\ IdleMessages
    /\ IdleReply
    /\ IdleHost

NextReply ==
    \/ Chat
    \/ ChatRegular
    \/ ChatVision
    \/ BackendRaises
    \/ BackendReturns

SpecReply == InitReply /\ [][NextReply]_vars

\* The backend call failed: it raised, or what it returned is malformed.
BackendFailed ==
    \/ reply.kind = "error"
    \/ reply.value.choices = <<>>
    \/ reply.value.choices[1].message.content = None

\* C13: every backend failure of a non-streaming request (the call raises,
\* or returns no choices or a first choice without text) is answered 503,
\* with no result; a successful answer carries the backend's model and a
\* predicted_tokens that is absent exactly when the backend omitted usage.
C13_BackendFailureIs503 ==
    pc = "answered" =>
        IF BackendFailed
        THEN http_status = 503 /\ http_body = None
        ELSE /\ http_status = 200
             /\ http_body # None
             /\ http_body[1].model = reply.value.model
             /\ (http_body[1].predicted_tokens = None) <=> (reply.value.usage = None)

(***************************************************************************)
(* ModelManager (model_manager.py) over the model host it talks to through *)
(* the LM Studio SDK.  Each call of the SDK either succeeds or raises.     *)
(***************************************************************************)
HostKeys == {"m1", "m2", "m3"}

Raised       == [kind |-> "raised"]
Returned(v)  == [kind |-> "returned", value |-> v]

Call(op, key, exclusive, listFailed, unloadFailed, loadFailed) ==
    Some([op |-> op, key |-> key, exclusive |-> exclusive,
          listFailed |-> listFailed, unloadFailed |-> unloadFailed,
          loadFailed |-> loadFailed])

\* list_models: lms.list_loaded_models raising is turned into
\* ModelNotAvailable; a model whose get_info raises is skipped.
list_models(listOk, skipped) ==
    IF listOk THEN Returned(loaded \ skipped) ELSE Raised

ListModels ==
    \E listOk \in BOOLEAN, skipped \in SUBSET loaded :
        /\ mm_outcome' = list_models(listOk, skipped)
        /\ mm_call' = Call("list_models", None, FALSE, ~listOk, FALSE, FALSE)
        /\ UNCHANGED loaded
        /\ UNCHANGED <<reqVars, streamVars, clientVars, msgVars, replyVars>>

\* unload_all: the keys it returns.  Every exception is swallowed: a failed
\* listing (`except Exception: pass`) leaves the list empty, a model whose
\* get_info or unload raises (`except Exception: continue`) is left out.
unload_all(listOk, failing) == IF listOk THEN loaded \ failing ELSE {}

\* The models the host still holds after unload_all.
AfterUnloadAll(listOk, failing) == IF listOk THEN failing ELSE loaded

UnloadAll ==
    \E listOk \in BOOLEAN, failing \in SUBSET loaded :
        /\ mm_outcome' = Returned(unload_all(listOk, failing))
        /\ loaded' = AfterUnloadAll(listOk, failing)
        /\ mm_call' = Call("unload_all", None, FALSE, ~listOk, listOk /\ failing # {}, FALSE)
        /\ UNCHANGED <<reqVars, streamVars, clientVars, msgVars, replyVars>>

\* load_model: unload_all first when exclusive (it never raises), then
\* lms.llm(model_key), whose failure is turned into ModelNotAvailable; a
\* failing get_info only replaces the display name by the key.
load_model(key, loadOk, infoOk) ==
    IF loadOk
    THEN Returned([key |-> key, display_name |-> IF infoOk THEN "display" ELSE key])
    ELSE Raised

LoadModel ==
    \E key \in HostKeys, exclusive, listOk, loadOk, infoOk \in BOOLEAN, failing \in SUBSET loaded :
        /\ ~exclusive => listOk /\ failing = {}
        /\ LET held == IF exclusive THEN AfterUnloadAll(listOk, failing) ELSE loaded
           IN  loaded' = IF loadOk THEN held \cup {key} ELSE held
        /\ mm_outcome' = load_model(key, loadOk, infoOk)
        /\ mm_call' = Call("load_model", Some(key), exclusive,
                           exclusive /\ ~listOk, exclusive /\ listOk /\ failing # {}, ~loadOk)
        /\ UNCHANGED <<reqVars, streamVars, clientVars, msgVars, replyVars>>

\* unload_model: lms.llm(model_key) and model.unload(); a failure of either
\* is turned into ModelNotAvailable.
unload_model(ok) == IF ok THEN Returned(TRUE) ELSE Raised

UnloadModel ==
    \E key \in HostKeys, ok \in BOOLEAN :
        /\ mm_outcome' = unload_model(ok)
        /\ loaded' = IF ok THEN loaded \ {key} ELSE loaded
        /\ mm_call' = Call("unload_model", Some(key), FALSE, FALSE, ~ok, FALSE)
        /\ UNCHANGED <<reqVars, streamVars, clientVars, msgVars, replyVars>>

(***************************************************************************)
(* SpecModels: any sequence of ModelManager calls against a host that may  *)
(* fail at each call.                                                      *)
(***************************************************************************)
InitModels ==
    /\ settings = DefaultSettings
    /\ model_key = None
    /\ req_config = None
    /\ Received
    /\ IdleStream
    /\ IdleClient
    /\ IdleMessages
    /\ IdleReply
    /\ loaded \in SUBSET HostKeys
    /\ mm_call = None
    /\ mm_outcome = None

NextModels ==
    \/ ListModels
    \/ LoadModel
    \/ UnloadModel
    \/ UnloadAll

SpecModels == InitModels /\ [][NextModels]_vars

\* A call of the latest operation to the model host failed.
HostCallFailed ==
    mm_call[1].listFailed \/ mm_call[1].unloadFailed \/ mm_call[1].loadFailed

\* C14: each ModelManager operation raises ModelNotAvailable whenever its
\* call to the model host fails: unload_all returns no list of keys when
\* listing or unloading failed, and load_model with exclusive set does not
\* load the model after a failed unload of the others.
C14_HostFailureRaisesModelNotAvailable ==
    mm_call # None /\ HostCallFailed =>
        /\ mm_outcome = Raised
        /\ mm_call[1].op = "load_model" /\ ~mm_call[1].loadFailed =>
               mm_call[1].key[1] \notin loaded

====
